---- MODULE Spec2Model ----
(***************************************************************************)
(* Model of the AI-OCR browser client: the panel-exclusive script          *)
(* (src/unnamed/part_000).  The page's module-level variables, the DOM     *)
(* properties the script reads and writes, every activation of the async   *)
(* function toggleRecognize with its locals and the await it is suspended  *)
(* at, the response stream of each request and the pending setTimeout      *)
(* callbacks are the state; each event handler and each resumption of an   *)
(* await is one action.                                                    *)
(*                                                                         *)
(* Texts are sequences of one-character strings.  A response stream is a   *)
(* sequence of wire units (bytes); the JSON payload of a line is written   *)
(* in coarser units, which the line splitter never looks into.             *)
(***************************************************************************)
EXTENDS Naturals, Sequences, FiniteSets, TLC

\* ------------------------------------------------------------------ bounds

\* Calls of toggleRecognize that start a run, per session.
MaxRuns == 2
\* Lines of one response stream (a last line without newline comes on top).
MaxLines == 2

\* ------------------------------------------------------------ text helpers

NL == "\n"
Whitespace == {" ", "\r", "\t", NL}

RECURSIVE TrimStart(_)
TrimStart(s) ==
    IF s # <<>> /\ Head(s) \in Whitespace THEN TrimStart(Tail(s)) ELSE s

RECURSIVE TrimEnd(_)
TrimEnd(s) ==
    IF s # <<>> /\ s[Len(s)] \in Whitespace
    THEN TrimEnd(SubSeq(s, 1, Len(s) - 1))
    ELSE s

\* String.prototype.trim
Trim(s) == TrimEnd(TrimStart(s))

\* String.prototype.startsWith / endsWith
StartsWith(s, p) == Len(s) >= Len(p) /\ SubSeq(s, 1, Len(p)) = p
EndsWith(s, p) ==
    Len(s) >= Len(p) /\ SubSeq(s, Len(s) - Len(p) + 1, Len(s)) = p

\* String.prototype.slice(n) and substring(from, to), 0-based as in JS
Slice(s, n) == SubSeq(s, n + 1, Len(s))
Substring(s, from, to) == SubSeq(s, from + 1, to)

\* String.prototype.split("\n"): always at least one element, the last one
\* being what follows the last newline.
Split(s) ==
    LET n    == Len(s)
        cuts == {i \in 1..n : s[i] = NL}
        k    == Cardinality(cuts)
        \* where the j-th newline is; 0 and n + 1 stand for the two ends
        Pos(j) == IF j = 0 THEN 0
                  ELSE IF j > k THEN n + 1
                  ELSE CHOOSE i \in cuts : Cardinality({c \in cuts : c <= i}) = j
    IN  [j \in 1..(k + 1) |-> SubSeq(s, Pos(j - 1) + 1, Pos(j) - 1)]

\* --------------------------------------------------------------- decoder

\* TextDecoder (UTF-8): one two-byte character stands for all multi-byte
\* ones; every other wire unit is a one-byte character that decodes to
\* itself.
LeadByte == "0xC3"
ContByte == "0xA9"
TwoByteChar == "U+00E9"
Replacement == "U+FFFD"

\* What the decoder makes of the bytes `all`, a pending lead byte included:
\* a lead byte and the continuation byte after it give the character, a lead
\* byte before anything else and a continuation byte on its own give the
\* replacement character, and a lead byte at the very end is kept back.
Decoded(all) ==
    LET n == Len(all)
        At(i) ==
            IF all[i] = LeadByte
            THEN IF i = n \/ all[i + 1] = ContByte THEN "" ELSE Replacement
            ELSE IF all[i] = ContByte
            THEN IF i > 1 /\ all[i - 1] = LeadByte THEN TwoByteChar ELSE Replacement
            ELSE all[i]
    IN  [text    |-> SelectSeq([i \in 1..n |-> At(i)], LAMBDA c : c # ""),
         pending |-> IF n > 0 /\ all[n] = LeadByte THEN <<LeadByte>> ELSE <<>>]

\* The decode call without the stream option: an incomplete character at
\* the end of a chunk is replaced at once.
DecodeNoStream(pending, bytes) ==
    LET r == Decoded(bytes) IN
    [text    |-> IF r.pending = <<>> THEN r.text ELSE Append(r.text, Replacement),
     pending |-> <<>>]

\* decoder.decode(value, {stream: true}): the bytes of an incomplete
\* character at the end of a chunk are kept for the next call.
Decode(pending, bytes) == Decoded(pending \o bytes)

\* ------------------------------------------------------------ JS values

Undefined == [t |-> "undefined"]
JNull == [t |-> "null"]
JStr(s) == [t |-> "string", v |-> s]
JObj(f) == [t |-> "object", f |-> f]
JArr(e) == [t |-> "array", e |-> e]

\* ToBoolean, as `x || ""` and `if (x)` apply it
Truthy(v) ==
    CASE v.t \in {"undefined", "null"} -> FALSE
      [] v.t = "string" -> v.v # <<>>
      [] OTHER -> TRUE

\* A property read `v.name` or `v[0]` throws a TypeError on null and undefined.
Throws(v) == v.t \in {"undefined", "null"}

Prop(v, name) ==
    IF v.t = "object" /\ name \in DOMAIN v.f THEN v.f[name] ELSE Undefined

Index0(v) ==
    IF v.t = "array" /\ Len(v.e) > 0 THEN v.e[1] ELSE Undefined

\* `x || ""` for a string or absent x
OrEmpty(v) == IF Truthy(v) THEN v.v ELSE <<>>

\* ------------------------------------------------- the stream's vocabulary

\* "data: ", the prefix of a payload line, in two units.  slice(6) cuts the
\* prefix off: in units, Len(PREFIX).
PREFIX == <<"data:", " ">>
\* "data: [DONE]", the terminator line
DONE_LINE == PREFIX \o <<"[DONE]">>

BEGIN_MARKER ==
    <<"<", "|", "b", "e", "g", "i", "n", "_", "o", "f", "_", "b", "o", "x", "|", ">">>
END_MARKER ==
    <<"<", "|", "e", "n", "d", "_", "o", "f", "_", "b", "o", "x", "|", ">">>

\* The type of another event of the same API.
OUTPUT_DELTA_TYPE == <<"response.output_text.delta">>

REASONING_DELTA_TYPE == <<"response.reasoning.delta">>

\* Delta texts the upstream sends.
TextA == <<"a">>
TextR == <<"r">>
TextBlank == <<" ">>
TextAccent == <<TwoByteChar>>
TextBoxed == BEGIN_MARKER \o TextA \o END_MARKER

\* {"choices":[{"delta": d}]}
ChoicesJson(d) == JObj([choices |-> JArr(<<JObj([delta |-> d])>>)])

\* The JSON texts of the model and the value JSON.parse gives for each.  A
\* text is a sequence of units: a payload is one unit, or several where a
\* multi-byte character (a unit of its own) or a second member divides it.
JsonTable ==
    [content |->
        [text  |-> <<"{\"choices\":[{\"delta\":{\"content\":\"a\"}}]}">>,
         value |-> ChoicesJson(JObj([content |-> JStr(TextA)]))],
     begin |->
        [text  |-> <<"{\"choices\":[{\"delta\":{\"content\":\"<|begin_of_box|>\"}}]}">>,
         value |-> ChoicesJson(JObj([content |-> JStr(BEGIN_MARKER)]))],
     boxed |->
        [text  |-> <<"{\"choices\":[{\"delta\":{\"content\":\"<|begin_of_box|>a<|end_of_box|>\"}}]}">>,
         value |-> ChoicesJson(JObj([content |-> JStr(TextBoxed)]))],
     reasoning |->
        [text  |-> <<"{\"choices\":[{\"delta\":{\"reasoning\":\"r\"}}]}">>,
         value |-> ChoicesJson(JObj([reasoning |-> JStr(TextR)]))],
     blank |->
        [text  |-> <<"{\"choices\":[{\"delta\":{\"reasoning\":\" \"}}]}">>,
         value |-> ChoicesJson(JObj([reasoning |-> JStr(TextBlank)]))],
     both |->
        [text  |-> <<"{\"choices\":[{\"delta\":{\"content\":\"", TwoByteChar,
                     "\",\"reasoning\":\"r\"}}]}">>,
         value |-> ChoicesJson(JObj([content |-> JStr(TextAccent),
                                     reasoning |-> JStr(TextR)]))],
     typed |->
        [text  |-> <<"{\"type\":\"response.reasoning.delta\",\"delta\":\"r\"}">>,
         value |-> JObj([type  |-> JStr(<<"response.reasoning.delta">>),
                         delta |-> JStr(TextR)])],
     typedChoices |->
        [text  |-> <<"{\"type\":\"response.reasoning.delta\",\"delta\":\"r\"",
                     ",\"choices\":[{\"delta\":{\"content\":\"a\"}}]}">>,
         value |-> JObj([type    |-> JStr(<<"response.reasoning.delta">>),
                         delta   |-> JStr(TextR),
                         choices |-> JArr(<<JObj([delta |->
                                         JObj([content |-> JStr(TextA)])])>>)])],
     usage |->
        [text  |-> <<"{\"choices\":[]}">>,
         value |-> JObj([choices |-> JArr(<<>>)])],
     other |->
        [text  |-> <<"{\"id\":\"x\"}">>,
         value |-> JObj([id |-> JStr(<<"x">>)])],
     null |->
        [text  |-> <<"null">>,
         value |-> JNull]]

\* JSON.parse: the value of a text of the table; any other text (a piece of
\* one, two run together) is not JSON and throws a SyntaxError.
JSON_parse(text) ==
    IF \E k \in DOMAIN JsonTable : JsonTable[k].text = text
    THEN [ok    |-> TRUE,
          value |-> JsonTable[CHOOSE k \in DOMAIN JsonTable :
                                  JsonTable[k].text = text].value]
    ELSE [ok |-> FALSE]

\* A payload cut short: not JSON.
MalformedText == <<"{\"choices\":[{\"delta\":{\"content\":\"a">>

\* The bytes of a text on the wire (UTF-8).
RECURSIVE Encode(_)
Encode(text) ==
    IF text = <<>> THEN <<>>
    ELSE (IF Head(text) = TwoByteChar THEN <<LeadByte, ContByte>> ELSE <<Head(text)>>)
         \o Encode(Tail(text))

\* The lines a response stream is made of, by kind, without their newline.
PayloadLine(k) == PREFIX \o JsonTable[k].text

LineText ==
    [k \in DOMAIN JsonTable |-> PayloadLine(k)] @@
    [empty     |-> <<>>,
     done      |-> DONE_LINE \o <<"\r">>,
     noSpace   |-> <<"data:">> \o JsonTable.content.text,
     malformed |-> PREFIX \o MalformedText,
     indented  |-> <<" ">> \o PayloadLine("both") \o <<"\r">>]

\* ----------------------------------------------------------- DOM helpers

\* classList.add / remove on the class set of a box
AddClass(cls, c) == cls \cup {c}
RemoveClass(cls, c) == cls \ {c}

\* remove('collapsed'), add('expanded') and the reverse
Expand(box) ==
    [box EXCEPT !.cls = AddClass(RemoveClass(@, "collapsed"), "expanded")]
Collapse(box) ==
    [box EXCEPT !.cls = AddClass(RemoveClass(@, "expanded"), "collapsed")]

updateStatus(d, msg, type) == [d EXCEPT !.status = [text |-> msg, cls |-> type]]

\* hideReasoningContent: collapses the reasoning box and expands the output
\* box, unless the reasoning box is collapsed already.
hideReasoningContent(d) ==
    IF "collapsed" \notin d.reasoningBox.cls
    THEN [d EXCEPT !.reasoningBox = Collapse(@), !.outputBox = Expand(@)]
    ELSE d

\* showReasoningContent(content) on the page m = [dom, reasoningContent, ...]
showReasoningContent(m, content) ==
    LET m1 == [m EXCEPT !.reasoningContent = content] IN
    IF content # <<>> /\ Trim(content) # <<>>
    THEN [m1 EXCEPT !.dom.reasoningDisplay = content,
                    !.dom.reasoningBox = [Expand(@) EXCEPT !.display = "flex"],
                    !.dom.outputBox = Collapse(@),
                    !.dom.outputStatus = "box-status",
                    !.dom.reasoningStatus = "box-status spinning"]
    ELSE [m1 EXCEPT !.dom = hideReasoningContent(@)]

\* toggleBox with the two boxes swapped in the else branch left out: the
\* target collapses and the other box is left as it is.
toggleBoxNoSwap(d, boxType) ==
    LET target == IF boxType = "reasoning" THEN d.reasoningBox ELSE d.outputBox
        other  == IF boxType = "reasoning" THEN d.outputBox ELSE d.reasoningBox
        t2 == IF "collapsed" \in target.cls THEN Expand(target) ELSE Collapse(target)
        o2 == IF "collapsed" \in target.cls THEN Collapse(other) ELSE other
    IN  IF boxType = "reasoning"
        THEN [d EXCEPT !.reasoningBox = t2, !.outputBox = o2]
        ELSE [d EXCEPT !.outputBox = t2, !.reasoningBox = o2]

\* toggleBox(boxType)
toggleBox(d, boxType) ==
    LET target == IF boxType = "reasoning" THEN d.reasoningBox ELSE d.outputBox
        other  == IF boxType = "reasoning" THEN d.outputBox ELSE d.reasoningBox
        t2 == IF "collapsed" \in target.cls THEN Expand(target) ELSE Collapse(target)
        o2 == IF "collapsed" \in target.cls THEN Collapse(other) ELSE Expand(other)
    IN  IF boxType = "reasoning"
        THEN [d EXCEPT !.reasoningBox = t2, !.outputBox = o2]
        ELSE [d EXCEPT !.outputBox = t2, !.reasoningBox = o2]

\* The models /api/models lists, with supports_reasoning of each, and the
\* option the page template selects.
Models == [default |-> "default", free |-> "true", plain |-> "false",
           odd |-> "maybe"]
ModelIds == DOMAIN Models
SelectedInTemplate == "free"

\* updateReasoningToggleState with the case 'default' that locks the switch
\* and leaves its checked value.
updateReasoningToggleStateLockOnly(toggle, selectedModelId) ==
    IF selectedModelId \notin ModelIds THEN toggle
    ELSE CASE Models[selectedModelId] = "false" ->
                [checked |-> FALSE, disabled |-> TRUE]
           [] Models[selectedModelId] = "default" ->
                [toggle EXCEPT !.disabled = TRUE]
           [] Models[selectedModelId] = "true" ->
                [toggle EXCEPT !.disabled = FALSE]
           [] OTHER -> [checked |-> FALSE, disabled |-> TRUE]

\* updateReasoningToggleState (part_000 80-126) on the switch [checked,
\* disabled], for the selected model.
updateReasoningToggleState(toggle, selectedModelId) ==
    IF selectedModelId \notin ModelIds THEN toggle
    ELSE CASE Models[selectedModelId] = "false" ->
                [checked |-> FALSE, disabled |-> TRUE]
           [] Models[selectedModelId] = "default" ->
                [checked |-> TRUE, disabled |-> TRUE]
           [] Models[selectedModelId] = "true" ->
                [toggle EXCEPT !.disabled = FALSE]
           [] OTHER -> [checked |-> FALSE, disabled |-> TRUE]

\* ------------------------------------------------- the read loop's body

\* The page as the read loop sees it: m = [fullText, reasoningText,
\* reasoningContent, dom, failed].  failed says that an exception left the
\* loop, on its way to the catch block of toggleRecognize.

\* The per-line catch that throws the exception on.
PerLineRethrow(m) == [m EXCEPT !.failed = TRUE]

\* catch (e) { console.error("Parse error", e); } (part_000 376-378)
PerLineCatch(m) == m

\* The content branch with the output box expanded as the text is shown.
AppendContentExpands(m, content) ==
    LET f == m.fullText \o content IN
    [m EXCEPT !.fullText = f, !.dom.display = f, !.dom.outputBox = Expand(@)]

\* fullText += content; display.innerText = fullText (part_000 370-374)
AppendContent(m, content) ==
    LET f == m.fullText \o content IN
    [m EXCEPT !.fullText = f, !.dom.display = f]

\* The body of the try block for a parsed payload (part_000 349-375).  The
\* TypeError of `json.type` on null is thrown before anything was changed.
HandleJson(m, json) ==
    IF Throws(json) THEN PerLineCatch(m)
    ELSE IF Prop(json, "type") = JStr(REASONING_DELTA_TYPE)
    THEN LET reasoningDelta == OrEmpty(Prop(json, "delta")) IN
         IF reasoningDelta # <<>>
         THEN LET t == m.reasoningText \o reasoningDelta IN
              showReasoningContent([m EXCEPT !.reasoningText = t], t)
         ELSE m
    ELSE LET choices == Prop(json, "choices")
             first   == IF Truthy(choices) THEN Index0(choices) ELSE Undefined
             delta   == IF Throws(first) THEN Undefined ELSE Prop(first, "delta")
         IN  IF Truthy(choices) /\ Truthy(delta)
             THEN LET content   == OrEmpty(Prop(delta, "content"))
                      reasoning == OrEmpty(Prop(delta, "reasoning"))
                      m1 == IF reasoning # <<>>
                            THEN LET t == m.reasoningText \o reasoning IN
                                 showReasoningContent(
                                     [m EXCEPT !.reasoningText = t], t)
                            ELSE m
                  IN  IF content # <<>>
                      THEN AppendContent(m1, content)
                      ELSE m1
             ELSE m

\* The line filter that takes "data:" without the space for the prefix too.
ProcessLineLoosePrefix(m, line) ==
    LET trimmed == Trim(line) IN
    IF trimmed = <<>> \/ trimmed = DONE_LINE THEN m
    ELSE IF StartsWith(trimmed, <<"data:">>)
    THEN LET parsed == JSON_parse(TrimStart(Slice(trimmed, 1))) IN
         IF parsed.ok THEN HandleJson(m, parsed.value) ELSE PerLineCatch(m)
    ELSE m

\* One pass of `for (const line of lines)` (part_000 341-380).
ProcessLine(m, line) ==
    LET trimmed == Trim(line) IN
    IF trimmed = <<>> \/ trimmed = DONE_LINE THEN m
    ELSE IF StartsWith(trimmed, PREFIX)
    THEN LET parsed == JSON_parse(Slice(trimmed, Len(PREFIX))) IN
         IF parsed.ok THEN HandleJson(m, parsed.value) ELSE PerLineCatch(m)
    ELSE m

\* The for loop; an exception that leaves a pass ends it.
RECURSIVE ProcessLines(_, _)
ProcessLines(m, lines) ==
    IF lines = <<>> \/ m.failed THEN m
    ELSE ProcessLines(ProcessLine(m, Head(lines)), Tail(lines))

\* `buffer = lines.pop()` forgotten: the text after the last newline is lost.
KeepLastDropped(lines) == <<>>

\* `buffer = lines.pop()`: what follows the last newline stays in the buffer.
KeepLast(lines) == lines[Len(lines)]

\* The loop body that runs the for loop before the pop: the text after the
\* last newline is taken for a line too.
ProcessChunkEager(m, io, value) ==
    LET d     == Decode(io.decoder, value)
        lines == Split(io.buffer \o d.text)
    IN  [m  |-> ProcessLines(m, lines),
         io |-> [buffer |-> KeepLast(lines), decoder |-> d.pending]]

\* One chunk through the loop body (part_000 337-380): io = [buffer,
\* decoder] are the loop's buffer and the decoder's pending bytes.
ProcessChunk(m, io, value) ==
    LET d     == Decode(io.decoder, value)
        lines == Split(io.buffer \o d.text)
    IN  [m  |-> ProcessLines(m, SubSeq(lines, 1, Len(lines) - 1)),
         io |-> [buffer |-> KeepLast(lines), decoder |-> d.pending]]

\* The marker strip applied when only the begin marker is tested.
StripBeginOnly(fullText) ==
    IF StartsWith(fullText, BEGIN_MARKER)
    THEN Substring(fullText, Len(BEGIN_MARKER), Len(fullText) - Len(END_MARKER))
    ELSE fullText

\* The final text (part_000 384-390).
StripMarkers(fullText) ==
    IF StartsWith(fullText, BEGIN_MARKER) /\ EndsWith(fullText, END_MARKER)
    THEN Substring(fullText, Len(BEGIN_MARKER), Len(fullText) - Len(END_MARKER))
    ELSE fullText

\* ---------------------------------------------------------------- state

VARIABLES
    currentImages,     \* let currentImages: the staged images
    isRecognizing,     \* let isRecognizing
    abortController,   \* let abortController: null, or the controller a run made
    sessionHistory,    \* let sessionHistory: the entries, newest first
    reasoningContent,  \* let reasoningContent
    reasoningToggle,   \* #reasoning-toggle: [checked, disabled]
    dom,               \* the elements the script writes
    act,               \* the activations of toggleRecognize, by run number
    timers,            \* pending setTimeout callbacks of the auto-switch
    alertOpen,         \* the modal alert is showing
    appConfig,         \* let APP_CONFIG: what loadConfig made of it so far
    modelSelect,       \* #model-select: the id of the selected model
    historyLoad,       \* where loadHistory of window.onload stands
    basic              \* the page of static/js/main.js: its run and elements

vars == <<currentImages, isRecognizing, abortController, sessionHistory,
          reasoningContent, reasoningToggle, dom, act, timers, alertOpen,
          appConfig, modelSelect, historyLoad, basic>>

\* What the handlers of recognition never write.
settings == <<appConfig, modelSelect, historyLoad, basic>>

Runs == 1..MaxRuns

\* abortController: null, or [run, aborted]: the controller that run made and
\* whether abort() was called on it.
Null == [run |-> 0, aborted |-> FALSE]

\* An activation that was not called yet, and one that returned.
NoIo == [buffer |-> <<>>, decoder |-> <<>>]
NoResponse == [status |-> "", body |-> ""]
NotStarted ==
    [pc |-> "none", fullText |-> <<>>, reasoningText |-> <<>>,
     reasoningEnabled |-> FALSE, io |-> NoIo, wire |-> <<>>, pos |-> 0,
     response |-> NoResponse]
Returned == [NotStarted EXCEPT !.pc = "ended"]

Active(i) == act[i].pc \in {"fetch", "json", "read"}

\* The elements main.js writes, before the first click: the container of
\* the reasoning text is not shown and the text is not expanded.
BasicElements ==
    [btn |-> [text |-> "Start", stop |-> FALSE],
     status |-> [text |-> <<"Idle">>, cls |-> ""],
     display |-> <<>>,
     reasoningDisplay |-> <<>>,
     expanded |-> FALSE,
     container |-> "none"]

\* The run of main.js that was not started yet.
BasicNotStarted ==
    [pc |-> "none", fullText |-> <<>>, reasoningText |-> <<>>, io |-> NoIo,
     wire |-> <<>>, pos |-> 0, response |-> NoResponse, dom |-> BasicElements]

\* The page before the first click.  The status text and the classes of the
\* two boxes come from the page template.
InitialStatus == [text |-> <<"Idle">>, cls |-> ""]
BoxClasses == {{"expanded"}, {"collapsed"}}

Init ==
    /\ currentImages = <<>>
    /\ isRecognizing = FALSE
    /\ abortController = Null
    /\ sessionHistory = <<>>
    /\ reasoningContent = <<>>
    /\ reasoningToggle \in [checked : BOOLEAN, disabled : {FALSE}]
    /\ \E rc \in BoxClasses, oc \in BoxClasses :
          dom = [btn |-> [text |-> "Start", stop |-> FALSE],
                 status |-> InitialStatus,
                 display |-> <<>>,
                 reasoningDisplay |-> <<>>,
                 reasoningStatus |-> "box-status",
                 outputStatus |-> "box-status",
                 reasoningBox |-> [display |-> "", cls |-> rc],
                 outputBox |-> [cls |-> oc]]
    /\ act = [i \in Runs |-> NotStarted]
    /\ timers = 0
    /\ alertOpen = FALSE
    /\ appConfig = "pending"
    /\ modelSelect = SelectedInTemplate
    /\ historyLoad = "pending"
    /\ basic = BasicNotStarted

\* ------------------------------------------------------ response streams

\* The kinds of line the upstream sends in a session, and in the study of
\* the stream parser.
SessionKinds == {"content", "reasoning", "blank"}
ParserKinds == {"empty", "done", "noSpace", "malformed", "null", "content", "begin",
                "boxed", "indented", "typedChoices"}

RECURSIVE WireOf(_)
WireOf(kinds) ==
    IF kinds = <<>> THEN <<>>
    ELSE Encode(LineText[Head(kinds)]) \o <<NL>> \o WireOf(Tail(kinds))

\* The response streams: up to MaxLines lines of the given kinds, then what
\* follows the last newline.
Streams(kinds, tails) ==
    {WireOf(ks) \o Encode(tail) :
        ks \in UNION {[1..n -> kinds] : n \in 0..MaxLines}, tail \in tails}

\* The streams of a session end with a newline; those of the study of the
\* parser may end inside a line.
SessionStreams == Streams(SessionKinds, {<<>>})
ParserStreams == Streams(ParserKinds, {<<>>, PayloadLine("content")})

\* Non-2xx responses: the status and the body, by what it holds: no JSON, an
\* object without error field, with an empty one, with an error text, and
\* the JSON text null.
ErrorStatuses == {"500"}
ErrorBodies == {"notJson", "noError", "emptyError", "error", "null"}
UpstreamError == <<"upstream said no">>

\* `await response.json().catch(() => ({}))` (part_000 324)
ErrorData(response) ==
    CASE response.body = "error" -> JObj([error |-> JStr(UpstreamError)])
      [] response.body = "emptyError" -> JObj([error |-> JStr(<<>>)])
      [] response.body = "noError" -> JObj([detail |-> JStr(<<"x">>)])
      [] response.body = "null" -> JNull
      [] OTHER -> JObj(<<>>)

\* errorData.error || `HTTP ${response.status}` (part_000 325)
ErrorMessage(errorData, response) ==
    IF Truthy(Prop(errorData, "error"))
    THEN Prop(errorData, "error").v
    ELSE <<"HTTP ", response.status>>

\* ----------------------------------------------- toggleRecognize, by part

\* The page as the read loop sees it, for activation a.
PageOf(a) ==
    [fullText |-> a.fullText, reasoningText |-> a.reasoningText,
     reasoningContent |-> reasoningContent, dom |-> dom, failed |-> FALSE]

\* The errors the awaits of toggleRecognize throw.
AbortError == [name |-> "AbortError", message |-> <<"The user aborted a request.">>]
NetworkError == [name |-> "TypeError", message |-> <<"Failed to fetch">>]
SyntaxError == [name |-> "SyntaxError", message |-> <<"Unexpected end of JSON input">>]
NullReadError ==
    [name |-> "TypeError",
     message |-> <<"Cannot read properties of null (reading 'error')">>]

\* What lines 324-325 throw for a non-2xx response: the Error with the
\* message, or the TypeError of reading `.error` of null.
HttpError(response) ==
    LET errorData == ErrorData(response) IN
    IF Throws(errorData) THEN NullReadError
    ELSE [name |-> "Error", message |-> ErrorMessage(errorData, response)]

\* The catch block with the test of err.name left out.
CatchAlwaysError(d, err) ==
    [updateStatus(d, <<"Error: ">> \o err.message, "error")
        EXCEPT !.reasoningStatus = "box-status error",
               !.outputStatus = "box-status error"]

\* catch (err) (part_000 437-449)
Catch(d, err) ==
    IF err.name = "AbortError"
    THEN [updateStatus(d, <<"Stopped">>, "error")
            EXCEPT !.reasoningStatus = "box-status",
                   !.outputStatus = "box-status"]
    ELSE [updateStatus(d, <<"Error: ">> \o err.message, "error")
            EXCEPT !.reasoningStatus = "box-status error",
                   !.outputStatus = "box-status error"]

\* The finally block that leaves the button as it is.
FinallyKeepsButton(d) == d

\* finally (part_000 450-454), on the elements
Finally(d) == [d EXCEPT !.btn = [text |-> "Start", stop |-> FALSE]]

\* Activation i throws err out of its try block: catch, finally, return.
Throw(i, err) ==
    /\ dom' = Finally(Catch(dom, err))
    /\ isRecognizing' = FALSE
    /\ act' = [act EXCEPT ![i] = Returned]

\* What the rejected await of activation i throws when its signal aborts.
\* The fetch and the read reject with the AbortError.  The rejection of
\* response.json() is swallowed by `.catch(() => ({}))`, so errorData is {}
\* and the next line throws `HTTP <status>`.
AbortThrows(a) ==
    IF a.pc = "json"
    THEN HttpError([a.response EXCEPT !.body = "notJson"])
    ELSE AbortError

\* The start of a run that leaves the boxes as the last run left them.
InitialBoxesKept(d, reasoningEnabled) == d

\* The box states and box status set at the start of a run (part_000 274-308).
InitialBoxes(d, reasoningEnabled) ==
    IF reasoningEnabled
    THEN [d EXCEPT !.reasoningBox = [Expand(@) EXCEPT !.display = "flex"],
                   !.outputBox = Collapse(@),
                   !.outputStatus = "box-status",
                   !.reasoningStatus = "box-status spinning"]
    ELSE [d EXCEPT !.reasoningBox = [Collapse(@) EXCEPT !.display = "none"],
                   !.outputBox = Expand(@),
                   !.reasoningStatus = "box-status",
                   !.outputStatus = "box-status spinning"]

\* What toggleRecognize writes to the elements before `await fetch(...)`
\* (part_000 240-311).
StartDom(d, reasoningEnabled) ==
    LET d1 == updateStatus([d EXCEPT !.btn = [text |-> "Stop", stop |-> TRUE]],
                           <<"Connecting...">>, "connecting")
        d2 == [d1 EXCEPT !.display = <<>>,
                         !.reasoningDisplay = <<>>,
                         !.reasoningStatus = "box-status",
                         !.outputStatus = "box-status"]
        d3 == InitialBoxes(d2, reasoningEnabled)
    IN  updateStatus(d3, <<"Processing...">>, "processing")

\* The guard of the first line when it does not return: a click during a
\* run aborts it and goes on to start another.
StopsWhenRecognizingNever == FALSE

\* `if (isRecognizing) { abortController?.abort(); return; }`
StopsWhenRecognizing == isRecognizing

\* The image check left out.
NoImagesNever == FALSE

\* `if (currentImages.length === 0) return alert(...)`
NoImages == Len(currentImages) = 0

\* A click while a run is active that only marks the controller: no pending
\* await rejects and the run reads on.
ClickStopMarksOnly ==
    /\ StopsWhenRecognizing
    /\ abortController # Null
    /\ abortController' = [abortController EXCEPT !.aborted = TRUE]
    /\ UNCHANGED <<currentImages, sessionHistory, reasoningContent,
                   reasoningToggle, timers, alertOpen, dom, isRecognizing, act,
                   settings>>

\* A click while a run is active: abort() on the current controller, and the
\* pending await of the activation that holds its signal rejects.
ClickStop ==
    /\ StopsWhenRecognizing
    /\ UNCHANGED settings
    /\ UNCHANGED <<currentImages, sessionHistory, reasoningContent,
                   reasoningToggle, timers, alertOpen>>
    /\ IF abortController = Null
       THEN UNCHANGED <<abortController, dom, isRecognizing, act>>
       ELSE /\ abortController' = [abortController EXCEPT !.aborted = TRUE]
            /\ IF Active(abortController.run) /\ ~abortController.aborted
               THEN Throw(abortController.run, AbortThrows(act[abortController.run]))
               ELSE UNCHANGED <<dom, isRecognizing, act>>

\* A click with no image staged: the alert, and nothing else.
ClickRejected ==
    /\ ~StopsWhenRecognizing
    /\ UNCHANGED settings
    /\ NoImages
    /\ alertOpen' = TRUE
    /\ UNCHANGED <<currentImages, isRecognizing, abortController, sessionHistory,
                   reasoningContent, reasoningToggle, dom, act, timers>>

\* A click that starts run i: everything up to `await fetch(...)`.
ClickStart ==
    /\ ~StopsWhenRecognizing
    /\ UNCHANGED settings
    /\ ~NoImages
    /\ \E i \in Runs :
        /\ act[i].pc = "none"
        /\ \A j \in 1..(i - 1) : act[j].pc # "none"
        /\ isRecognizing' = TRUE
        /\ reasoningContent' = <<>>
        /\ abortController' = [run |-> i, aborted |-> FALSE]
        /\ LET reasoningEnabled == reasoningToggle.checked
           IN  /\ dom' = StartDom(dom, reasoningEnabled)
               /\ act' = [act EXCEPT ![i] =
                             [NotStarted EXCEPT !.pc = "fetch",
                                                !.reasoningEnabled = reasoningEnabled]]
    /\ UNCHANGED <<currentImages, sessionHistory, reasoningToggle, timers,
                   alertOpen>>

\* The click handler of the control button.
toggleRecognize ==
    /\ ~alertOpen
    /\ \/ ClickStop
       \/ ClickRejected
       \/ ClickStart

\* `await fetch(...)` resolves: a 2xx response with its stream, or another
\* status with its body.
FetchResolves(i, streams) ==
    /\ ~alertOpen
    /\ UNCHANGED settings
    /\ act[i].pc = "fetch"
    /\ \/ \E s \in streams :
            act' = [act EXCEPT ![i].pc = "read", ![i].wire = s, ![i].pos = 0]
       \/ \E st \in ErrorStatuses, b \in ErrorBodies :
            act' = [act EXCEPT ![i].pc = "json",
                               ![i].response = [status |-> st, body |-> b]]
    /\ UNCHANGED <<currentImages, isRecognizing, abortController, sessionHistory,
                   reasoningContent, reasoningToggle, dom, timers,
                   alertOpen>>

\* `await fetch(...)` rejects: the network failed.
FetchRejects(i) ==
    /\ ~alertOpen
    /\ UNCHANGED settings
    /\ act[i].pc = "fetch"
    /\ Throw(i, NetworkError)
    /\ UNCHANGED <<currentImages, abortController, sessionHistory,
                   reasoningContent, reasoningToggle, timers, alertOpen>>

\* `await response.json().catch(...)` settles and the Error is thrown.
ErrorBodyRead(i) ==
    /\ ~alertOpen
    /\ UNCHANGED settings
    /\ act[i].pc = "json"
    /\ Throw(i, HttpError(act[i].response))
    /\ UNCHANGED <<currentImages, abortController, sessionHistory,
                   reasoningContent, reasoningToggle, timers, alertOpen>>

\* `await reader.read()` gives the next n bytes of the stream.
ReadChunk(i) ==
    /\ ~alertOpen
    /\ UNCHANGED settings
    /\ act[i].pc = "read"
    /\ \E n \in 1..(Len(act[i].wire) - act[i].pos) :
        LET a == act[i]
            r == ProcessChunk(PageOf(a), a.io, SubSeq(a.wire, a.pos + 1, a.pos + n))
        IN  IF r.m.failed
            THEN /\ Throw(i, SyntaxError)
                 /\ UNCHANGED reasoningContent
            ELSE /\ act' = [act EXCEPT ![i].fullText = r.m.fullText,
                                       ![i].reasoningText = r.m.reasoningText,
                                       ![i].io = r.io,
                                       ![i].pos = a.pos + n]
                 /\ reasoningContent' = r.m.reasoningContent
                 /\ dom' = r.m.dom
                 /\ UNCHANGED isRecognizing
    /\ UNCHANGED <<currentImages, abortController, sessionHistory,
                   reasoningToggle, timers, alertOpen>>

\* `await reader.read()` rejects: the connection broke.
ReadFails(i) ==
    /\ ~alertOpen
    /\ UNCHANGED settings
    /\ act[i].pc = "read"
    /\ Throw(i, [NetworkError EXCEPT !.message = <<"network error">>])
    /\ UNCHANGED <<currentImages, abortController, sessionHistory,
                   reasoningContent, reasoningToggle, timers, alertOpen>>

\* The status indicators of the boxes at Done (part_000 402-412).
CompletedStatus(d, a) ==
    IF a.reasoningEnabled /\ a.reasoningText # <<>>
    THEN [d EXCEPT !.reasoningStatus = "box-status completed",
                   !.outputStatus = "box-status completed"]
    ELSE [d EXCEPT !.outputStatus = "box-status completed"]

\* The entry put at the end of the list.
Push(history, entry) == Append(history, entry)

\* sessionHistory.unshift({id, time, text}) (part_000 394-398); of an entry
\* the text is kept.
Unshift(history, entry) == <<entry>> \o history

\* `await reader.read()` reports done: the rest of the try block, finally.
ReadDone(i) ==
    /\ ~alertOpen
    /\ UNCHANGED settings
    /\ act[i].pc = "read"
    /\ act[i].pos = Len(act[i].wire)
    /\ LET a == act[i]
           final == StripMarkers(a.fullText)
           d1 == IF final # a.fullText THEN [dom EXCEPT !.display = final] ELSE dom
       IN  IF final # <<>>
           THEN /\ sessionHistory' = Unshift(sessionHistory, [text |-> final])
                /\ dom' = Finally(CompletedStatus(
                              updateStatus(d1, <<"Done">>, "success"), a))
                /\ timers' = IF a.reasoningText # <<>> THEN timers + 1 ELSE timers
                /\ act' = [act EXCEPT ![i] = Returned]
           ELSE /\ dom' = Finally(d1)
                /\ act' = [act EXCEPT ![i] = Returned]
                /\ UNCHANGED <<sessionHistory, timers>>
    /\ isRecognizing' = FALSE
    /\ UNCHANGED <<currentImages, abortController, reasoningContent,
                   reasoningToggle, alertOpen>>

\* The setTimeout callback of the auto-switch (part_000 416-433).
AutoSwitch ==
    /\ ~alertOpen
    /\ UNCHANGED settings
    /\ timers > 0
    /\ timers' = timers - 1
    /\ dom' = IF dom.reasoningBox.display # "none"
              THEN [dom EXCEPT !.reasoningBox = Collapse(@), !.outputBox = Expand(@)]
              ELSE dom
    /\ UNCHANGED <<currentImages, isRecognizing, abortController, sessionHistory,
                   reasoningContent, reasoningToggle, act, alertOpen>>

\* --------------------------------------------------------- the user's hand

\* The header of a box is clicked.
UserTogglesBox(boxType) ==
    /\ ~alertOpen
    /\ UNCHANGED settings
    /\ dom' = toggleBox(dom, boxType)
    /\ UNCHANGED <<currentImages, isRecognizing, abortController, sessionHistory,
                   reasoningContent, reasoningToggle, act, timers,
                   alertOpen>>

\* The user edits the inputs of a run (the staged images, the reasoning
\* switch) between runs: a run reads them in its first step only, so an edit
\* made during a run has the effect of the same edit made once it returned.

\* The image files the user has at hand; each is staged at most once at a time.
ImageFiles == {"page.png"}

\* reader.onload of processFiles: an image is staged.
processFiles ==
    /\ ~alertOpen
    /\ UNCHANGED settings
    /\ ~isRecognizing
    /\ \E f \in ImageFiles :
        /\ \A k \in 1..Len(currentImages) : currentImages[k] # f
        /\ currentImages' = Append(currentImages, f)
    /\ UNCHANGED <<isRecognizing, abortController, sessionHistory,
                   reasoningContent, reasoningToggle, dom, act, timers, alertOpen>>

\* removeImage(id) of a staged image.
removeImage ==
    /\ ~alertOpen
    /\ UNCHANGED settings
    /\ ~isRecognizing
    /\ \E k \in 1..Len(currentImages) :
        currentImages' = SubSeq(currentImages, 1, k - 1)
                            \o SubSeq(currentImages, k + 1, Len(currentImages))
    /\ UNCHANGED <<isRecognizing, abortController, sessionHistory,
                   reasoningContent, reasoningToggle, dom, act, timers, alertOpen>>

\* The reasoning switch is flipped; once the configuration is loaded its
\* change listener is updateReasoningToggleState.
UserFlipsReasoning ==
    /\ ~alertOpen
    /\ ~isRecognizing
    /\ ~reasoningToggle.disabled
    /\ LET flipped == [reasoningToggle EXCEPT !.checked = ~@] IN
       reasoningToggle' = IF appConfig = "loaded"
                          THEN updateReasoningToggleState(flipped, modelSelect)
                          ELSE flipped
    /\ UNCHANGED <<currentImages, isRecognizing, abortController, sessionHistory,
                   reasoningContent, dom, act, timers, alertOpen, settings>>

\* loadConfig once `await fetch('/api/models')` and `await response.json()`
\* gave the configuration (part_000 47-77): the select has a value already,
\* the listeners are added, the switch is updated.
ConfigLoads ==
    /\ ~alertOpen
    /\ appConfig = "pending"
    /\ appConfig' = "loaded"
    /\ reasoningToggle' = updateReasoningToggleState(reasoningToggle, modelSelect)
    /\ UNCHANGED <<currentImages, isRecognizing, abortController, sessionHistory,
                   reasoningContent, dom, act, timers, alertOpen, modelSelect,
                   historyLoad, basic>>

\* loadConfig when the request fails or the response is not ok: nothing is
\* set and no listener is added.
ConfigFails ==
    /\ ~alertOpen
    /\ appConfig = "pending"
    /\ appConfig' = "failed"
    /\ UNCHANGED <<currentImages, isRecognizing, abortController, sessionHistory,
                   reasoningContent, reasoningToggle, dom, act, timers, alertOpen,
                   modelSelect, historyLoad, basic>>

\* The user selects another model; once the configuration is loaded the
\* change listener of the select is updateReasoningToggleState.
SelectModel(id) ==
    /\ ~alertOpen
    /\ id # modelSelect
    /\ modelSelect' = id
    /\ reasoningToggle' = IF appConfig = "loaded"
                          THEN updateReasoningToggleState(reasoningToggle, id)
                          ELSE reasoningToggle
    /\ UNCHANGED <<currentImages, isRecognizing, abortController, sessionHistory,
                   reasoningContent, dom, act, timers, alertOpen, appConfig,
                   historyLoad, basic>>

\* What the server keeps of earlier sessions, and the bodies `/api/history`
\* answers with: the entries, an empty list, an object without history, no
\* JSON, and the JSON text null.
ServerHistory == <<[text |-> <<"old">>]>>
HistoryBodies == {"entries", "empty", "noHistory", "notJson", "null"}

\* What loadHistory makes of a 2xx body (part_000 133-139): `data.history
\* || []`, and [] in the catch when the body is no JSON or is null.
HistoryOf(body) == IF body = "entries" THEN ServerHistory ELSE <<>>

\* window.onload calls loadHistory once loadConfig returned.  Its
\* `await fetch('/api/history')` resolves: with a 2xx response, whose body
\* is read next, or with another status, and loadHistory returns.
HistoryFetchResolves ==
    /\ ~alertOpen
    /\ appConfig # "pending"
    /\ historyLoad = "pending"
    /\ historyLoad' \in {"json", "settled"}
    /\ UNCHANGED <<currentImages, isRecognizing, abortController, sessionHistory,
                   reasoningContent, reasoningToggle, dom, act, timers, alertOpen,
                   appConfig, modelSelect, basic>>

\* The request of loadHistory fails: the catch empties the list.
HistoryFetchRejects ==
    /\ ~alertOpen
    /\ appConfig # "pending"
    /\ historyLoad = "pending"
    /\ historyLoad' = "settled"
    /\ sessionHistory' = <<>>
    /\ UNCHANGED <<currentImages, isRecognizing, abortController,
                   reasoningContent, reasoningToggle, dom, act, timers, alertOpen,
                   appConfig, modelSelect, basic>>

\* `await response.json()` of loadHistory settles and the list is assigned.
HistoryBodyRead ==
    /\ ~alertOpen
    /\ historyLoad = "json"
    /\ historyLoad' = "settled"
    /\ \E body \in HistoryBodies : sessionHistory' = HistoryOf(body)
    /\ UNCHANGED <<currentImages, isRecognizing, abortController,
                   reasoningContent, reasoningToggle, dom, act, timers, alertOpen,
                   appConfig, modelSelect, basic>>

\* The alert is dismissed; until then no handler of the page runs.
DismissAlert ==
    /\ alertOpen
    /\ UNCHANGED settings
    /\ alertOpen' = FALSE
    /\ UNCHANGED <<currentImages, isRecognizing, abortController, sessionHistory,
                   reasoningContent, reasoningToggle, dom, act, timers>>

\* ------------------------------------------ the page of static/js/main.js

\* main.js declares the same globals and stages images the same way; its
\* elements and its toggleRecognize are its own.  One run of it is studied.

\* hideReasoningContent of main.js
hideReasoningContentBasic(d) == [d EXCEPT !.container = "none", !.expanded = FALSE]

\* showReasoningContent(content) of main.js, on the page m
showReasoningContentBasic(m, content) ==
    LET m1 == [m EXCEPT !.reasoningContent = content] IN
    IF content # <<>> /\ Trim(content) # <<>>
    THEN [m1 EXCEPT !.dom.reasoningDisplay = content, !.dom.container = "block"]
    ELSE [m1 EXCEPT !.dom = hideReasoningContentBasic(@)]

\* toggleReasoningDisplay of main.js
toggleReasoningDisplay(d) == [d EXCEPT !.expanded = ~@]

\* The try block of main.js with the content of a payload taken only when
\* the payload has no reasoning.
HandleJsonBasicEither(m, json) ==
    IF Throws(json) \/ Throws(Prop(json, "choices")) THEN m
    ELSE LET first == Index0(Prop(json, "choices"))
             delta == IF Throws(first) THEN Undefined ELSE Prop(first, "delta")
         IN  IF Throws(delta) \/ Truthy(Prop(delta, "reasoning")) THEN m
             ELSE LET f == m.fullText \o OrEmpty(Prop(delta, "content")) IN
                  IF f # m.fullText
                  THEN [m EXCEPT !.fullText = f, !.dom.display = f]
                  ELSE m

\* The body of the try block of main.js for a parsed payload (245-258), with
\* its catch: `json.choices[0]` throws on null and on a payload without
\* choices, before anything was changed.
HandleJsonBasic(m, json) ==
    IF Throws(json) \/ Throws(Prop(json, "choices")) THEN m
    ELSE LET first == Index0(Prop(json, "choices"))
             delta == IF Throws(first) THEN Undefined ELSE Prop(first, "delta")
             content == IF Throws(delta) THEN <<>>
                        ELSE OrEmpty(Prop(delta, "content"))
         IN  IF content # <<>>
             THEN LET f  == m.fullText \o content
                      m1 == [m EXCEPT !.fullText = f, !.dom.display = f]
                      reasoning == Prop(delta, "reasoning")
                  IN  IF Truthy(reasoning)
                      THEN LET t == m1.reasoningText \o reasoning.v IN
                           showReasoningContentBasic(
                               [m1 EXCEPT !.reasoningText = t], t)
                      ELSE m1
             ELSE m

\* One pass of `for (const line of lines)` of main.js (239-263)
ProcessLineBasic(m, line) ==
    LET trimmed == Trim(line) IN
    IF trimmed = <<>> \/ trimmed = DONE_LINE THEN m
    ELSE IF StartsWith(trimmed, PREFIX)
    THEN LET parsed == JSON_parse(Slice(trimmed, Len(PREFIX))) IN
         IF parsed.ok THEN HandleJsonBasic(m, parsed.value) ELSE m
    ELSE m

RECURSIVE ProcessLinesBasic(_, _)
ProcessLinesBasic(m, lines) ==
    IF lines = <<>> THEN m
    ELSE ProcessLinesBasic(ProcessLineBasic(m, Head(lines)), Tail(lines))

\* One chunk through the loop body of main.js (235-263)
ProcessChunkBasic(m, io, value) ==
    LET d     == Decode(io.decoder, value)
        lines == Split(io.buffer \o d.text)
    IN  [m  |-> ProcessLinesBasic(m, SubSeq(lines, 1, Len(lines) - 1)),
         io |-> [buffer |-> KeepLast(lines), decoder |-> d.pending]]

\* The final text of main.js (266-273)
StripMarkersBasic(fullText) ==
    IF StartsWith(fullText, BEGIN_MARKER) /\ EndsWith(fullText, END_MARKER)
    THEN Substring(fullText, Len(BEGIN_MARKER), Len(fullText) - Len(END_MARKER))
    ELSE fullText

\* The page as the read loop of main.js sees it.
BasicPage(b) ==
    [fullText |-> b.fullText, reasoningText |-> b.reasoningText,
     reasoningContent |-> reasoningContent, dom |-> b.dom]

\* What toggleRecognize of main.js writes to the elements before
\* `await fetch(...)` (180-209)
BasicStartDom(d) ==
    LET d1 == [d EXCEPT !.btn = [text |-> "Stop", stop |-> TRUE],
                        !.status = [text |-> <<"Connecting...">>, cls |-> "connecting"],
                        !.display = <<>>,
                        !.reasoningDisplay = <<>>]
    IN  [hideReasoningContentBasic(d1)
            EXCEPT !.status = [text |-> <<"Processing...">>, cls |-> "processing"]]

\* catch (err) of main.js (297-303)
BasicCatch(d, err) ==
    IF err.name = "AbortError"
    THEN [d EXCEPT !.status = [text |-> <<"Stopped">>, cls |-> "error"]]
    ELSE [d EXCEPT !.status = [text |-> <<"Error: ">> \o err.message, cls |-> "error"]]

\* finally of main.js (304-308), on the elements
BasicFinally(d) == [d EXCEPT !.btn = [text |-> "Start", stop |-> FALSE]]

\* The run of main.js throws err out of its try block.
BasicThrow(err) ==
    /\ basic' = [BasicNotStarted EXCEPT
                    !.pc = "ended",
                    !.dom = BasicFinally(BasicCatch(basic.dom, err))]
    /\ isRecognizing' = FALSE

BasicActive == basic.pc \in {"fetch", "json", "read"}

\* A click while the run of main.js is active.
BasicClickStop ==
    /\ StopsWhenRecognizing
    /\ abortController # Null
    /\ abortController' = [abortController EXCEPT !.aborted = TRUE]
    /\ IF BasicActive /\ ~abortController.aborted
       THEN BasicThrow(AbortThrows(basic))
       ELSE UNCHANGED <<basic, isRecognizing>>
    /\ UNCHANGED <<currentImages, sessionHistory, reasoningContent,
                   reasoningToggle, dom, act, timers, alertOpen, appConfig,
                   modelSelect, historyLoad>>

\* A click that starts the run of main.js: everything up to `await fetch(...)`.
BasicClickStart ==
    /\ ~StopsWhenRecognizing
    /\ ~NoImages
    /\ basic.pc = "none"
    /\ isRecognizing' = TRUE
    /\ reasoningContent' = <<>>
    /\ abortController' = [run |-> 1, aborted |-> FALSE]
    /\ basic' = [basic EXCEPT !.pc = "fetch", !.dom = BasicStartDom(@)]
    /\ UNCHANGED <<currentImages, sessionHistory, reasoningToggle, dom, act,
                   timers, alertOpen, appConfig, modelSelect, historyLoad>>

\* The click handler of the control button of main.js.
toggleRecognizeBasic ==
    /\ ~alertOpen
    /\ \/ BasicClickStop
       \/ ClickRejected
       \/ BasicClickStart

\* `await fetch(...)` of main.js resolves.
BasicFetchResolves(streams) ==
    /\ ~alertOpen
    /\ basic.pc = "fetch"
    /\ \/ \E s \in streams :
            basic' = [basic EXCEPT !.pc = "read", !.wire = s, !.pos = 0]
       \/ \E st \in ErrorStatuses, b \in ErrorBodies :
            basic' = [basic EXCEPT !.pc = "json",
                                   !.response = [status |-> st, body |-> b]]
    /\ UNCHANGED <<currentImages, isRecognizing, abortController, sessionHistory,
                   reasoningContent, reasoningToggle, dom, act, timers,
                   alertOpen, appConfig, modelSelect, historyLoad>>

\* An await of main.js before the stream ends the run: the request fails,
\* the body of a non-2xx response was read (221-224, the same two lines as
\* in the other page), the read of a chunk fails.
BasicAwaitThrows ==
    /\ ~alertOpen
    /\ \/ basic.pc = "fetch" /\ BasicThrow(NetworkError)
       \/ basic.pc = "json" /\ BasicThrow(HttpError(basic.response))
       \/ basic.pc = "read"
            /\ BasicThrow([NetworkError EXCEPT !.message = <<"network error">>])
    /\ UNCHANGED <<currentImages, abortController, sessionHistory,
                   reasoningContent, reasoningToggle, dom, act, timers,
                   alertOpen, appConfig, modelSelect, historyLoad>>

\* `await reader.read()` of main.js gives the next n bytes of the stream.
BasicReadChunk ==
    /\ ~alertOpen
    /\ basic.pc = "read"
    /\ \E n \in 1..(Len(basic.wire) - basic.pos) :
        LET r == ProcessChunkBasic(BasicPage(basic), basic.io,
                     SubSeq(basic.wire, basic.pos + 1, basic.pos + n))
        IN  /\ basic' = [basic EXCEPT !.fullText = r.m.fullText,
                                      !.reasoningText = r.m.reasoningText,
                                      !.dom = r.m.dom,
                                      !.io = r.io,
                                      !.pos = basic.pos + n]
            /\ reasoningContent' = r.m.reasoningContent
    /\ UNCHANGED <<currentImages, isRecognizing, abortController, sessionHistory,
                   reasoningToggle, dom, act, timers, alertOpen, appConfig,
                   modelSelect, historyLoad>>

\* `await reader.read()` of main.js reports done: the rest of the try
\* block (266-295) and finally.  The ended run keeps its stream and its
\* final text.
BasicReadDone ==
    /\ ~alertOpen
    /\ basic.pc = "read"
    /\ basic.pos = Len(basic.wire)
    /\ LET final == StripMarkersBasic(basic.fullText)
           d1 == IF final # basic.fullText
                 THEN [basic.dom EXCEPT !.display = final] ELSE basic.dom
       IN  IF final # <<>>
           THEN /\ sessionHistory' = <<[text |-> final]>> \o sessionHistory
                /\ basic' = [basic EXCEPT
                       !.pc = "done", !.fullText = final, !.io = NoIo,
                       !.dom = BasicFinally(
                           [d1 EXCEPT !.status = [text |-> <<"Done">>,
                                                  cls |-> "success"]])]
                /\ timers' = IF basic.reasoningText # <<>> THEN timers + 1 ELSE timers
           ELSE /\ basic' = [basic EXCEPT !.pc = "done", !.fullText = final,
                                          !.io = NoIo,
                                          !.dom = BasicFinally(d1)]
                /\ UNCHANGED <<sessionHistory, timers>>
    /\ isRecognizing' = FALSE
    /\ UNCHANGED <<currentImages, abortController, reasoningContent,
                   reasoningToggle, dom, act, alertOpen, appConfig, modelSelect,
                   historyLoad>>

\* The setTimeout callback of main.js (287-293)
BasicAutoCollapse ==
    /\ ~alertOpen
    /\ timers > 0
    /\ timers' = timers - 1
    /\ basic' = [basic EXCEPT !.dom.expanded = FALSE]
    /\ UNCHANGED <<currentImages, isRecognizing, abortController, sessionHistory,
                   reasoningContent, reasoningToggle, dom, act, alertOpen,
                   appConfig, modelSelect, historyLoad>>

\* The header of the reasoning text of main.js is clicked.
BasicUserToggles ==
    /\ ~alertOpen
    /\ basic.dom.container # "none"
    /\ basic' = [basic EXCEPT !.dom = toggleReasoningDisplay(@)]
    /\ UNCHANGED <<currentImages, isRecognizing, abortController, sessionHistory,
                   reasoningContent, reasoningToggle, dom, act, timers,
                   alertOpen, appConfig, modelSelect, historyLoad>>

\* --------------------------------------------------------- specifications

\* A session of the page: the user, the network and the timers.
Next ==
    \/ toggleRecognize
    \/ \E i \in Runs : FetchResolves(i, SessionStreams)
    \/ \E i \in Runs : FetchRejects(i)
    \/ \E i \in Runs : ErrorBodyRead(i)
    \/ \E i \in Runs : ReadChunk(i)
    \/ \E i \in Runs : ReadFails(i)
    \/ \E i \in Runs : ReadDone(i)
    \/ AutoSwitch
    \/ \E b \in {"reasoning", "output"} : UserTogglesBox(b)
    \/ processFiles
    \/ removeImage
    \/ UserFlipsReasoning
    \/ DismissAlert

Spec == Init /\ [][Next]_vars

\* A pending await of activation i settles otherwise than by a chunk: the
\* response or its body arrives, the network fails, the stream ends.
Settles(i) ==
    \/ FetchResolves(i, SessionStreams)
    \/ FetchRejects(i)
    \/ ErrorBodyRead(i)
    \/ ReadFails(i)
    \/ ReadDone(i)

\* ReadChunk(i) can be taken: the loop body is total, so this is its guard.
ReadPending(i) ==
    ~alertOpen /\ act[i].pc = "read" /\ act[i].pos < Len(act[i].wire)

\* A step of ReadChunk(i), told by what it does: the run reads on, further
\* in its stream.
ChunkRead(i) ==
    act[i].pc = "read" /\ act'[i].pc = "read" /\ act'[i].pos > act[i].pos

\* The session in which a pending await settles in the end: weak fairness
\* of the settling of whichever activation is waiting and, written with its
\* guard, of its next chunk.
SpecLive ==
    /\ Spec
    /\ WF_vars(\E i \in Runs : Settles(i))
    /\ ([]<>~(\E i \in Runs : ReadPending(i)))
          \/ ([]<><<\E i \in Runs : ChunkRead(i)>>_vars)

\* The study of the settings: the configuration loads or fails, the user
\* picks models and flips the switch, and runs are started and ended.
NextSettings ==
    \/ ConfigLoads
    \/ ConfigFails
    \/ \E id \in ModelIds : SelectModel(id)
    \/ UserFlipsReasoning
    \/ toggleRecognize
    \/ processFiles
    \/ DismissAlert
    \/ \E i \in Runs : FetchRejects(i)

SpecSettings == Init /\ [][NextSettings]_vars

\* The study of the stream parser: one run, fed every stream of the parser's
\* vocabulary in every chunking.
NextParser ==
    \/ toggleRecognize
    \/ processFiles
    \/ DismissAlert
    \/ FetchResolves(1, ParserStreams)
    \/ ReadChunk(1)
    \/ ReadDone(1)

\* The parser is studied with reasoning requested.
InitParser == Init /\ reasoningToggle.checked

SpecParser == InitParser /\ [][NextParser]_vars

\* The study of the history: the page loads its configuration and its
\* history while the user runs recognitions.
HistoryStreams == Streams({"content", "both"}, {<<>>})

NextHistory ==
    \/ ConfigLoads
    \/ ConfigFails
    \/ HistoryFetchResolves
    \/ HistoryFetchRejects
    \/ HistoryBodyRead
    \/ toggleRecognize
    \/ processFiles
    \/ DismissAlert
    \/ \E i \in Runs : FetchResolves(i, HistoryStreams)
    \/ \E i \in Runs : ReadChunk(i)
    \/ \E i \in Runs : ReadDone(i)

SpecHistory == InitParser /\ [][NextHistory]_vars

\* The lines the upstream sends in the study of main.js, the streams made
\* of them, and the study: one run of main.js, fed every such stream in
\* every chunking.
BasicKinds == {"content", "reasoning", "both", "begin", "boxed", "other",
               "null", "typedChoices"}
BasicStreams == Streams(BasicKinds, {<<>>, PayloadLine("content")})

NextBasic ==
    \/ toggleRecognizeBasic
    \/ processFiles
    \/ DismissAlert
    \/ BasicFetchResolves(BasicStreams)
    \/ BasicAwaitThrows
    \/ BasicReadChunk
    \/ BasicReadDone
    \/ BasicAutoCollapse
    \/ BasicUserToggles

\* The elements of the other page are not on this one: they stay as they
\* start.
InitBasic ==
    /\ InitParser
    /\ dom.reasoningBox.cls = {"collapsed"}
    /\ dom.outputBox.cls = {"expanded"}

SpecBasic == InitBasic /\ [][NextBasic]_vars

\* ------------------------------------------------------------- properties

\* The bytes run a was given so far, and the complete lines among them.
Delivered(a) == SubSeq(a.wire, 1, a.pos)

CompleteLines(bytes) ==
    LET lines == Split(Decoded(bytes).text) IN SubSeq(lines, 1, Len(lines) - 1)

\* The page run a started from.
StartPage(a) ==
    [fullText |-> <<>>, reasoningText |-> <<>>, reasoningContent |-> <<>>,
     dom |-> StartDom(dom, a.reasoningEnabled), failed |-> FALSE]

\* The lines of `lines` that are not in `dropped`.
Without(lines, dropped) == SelectSeq(lines, LAMBDA l : l \notin dropped)

\* Lines with the prefix whose payload JSON.parse rejects, or is no object.
BadLines == {LineText.malformed, LineText["null"]}

\* Lines the filter passes over: blank, the terminator, without the prefix.
IgnoredLines == {LineText.empty, LineText.done, LineText.noSpace}

\* C1: however the bytes of a response were cut into chunks, the output
\* text, the reasoning text and the unfinished line held back are those of
\* the same bytes arriving as one chunk; a cut inside a line or inside a
\* multi-byte character changes nothing.
ChunkingInvariant ==
    act[1].pc = "read" =>
        LET whole == ProcessChunk(StartPage(act[1]), NoIo, Delivered(act[1])) IN
        /\ act[1].fullText = whole.m.fullText
        /\ act[1].reasoningText = whole.m.reasoningText
        /\ act[1].io.buffer = whole.io.buffer

\* A chunk ended inside a multi-byte character of a line, after text of an
\* earlier line was accumulated.
CutInsideCharacter ==
    /\ act[1].pc = "read"
    /\ act[1].io.decoder # <<>>
    /\ act[1].io.buffer # <<>>
    /\ act[1].fullText # <<>>

\* C2: a click on the control button while a run is active, whichever await
\* of toggleRecognize is pending (the request, the body of a non-2xx
\* response, the next chunk), ends the run with the status "Stopped".
CancelIsStopped ==
    [][(ClickStop /\ \E i \in Runs : Active(i))
          => /\ dom'.status.text = <<"Stopped">>
             /\ \A i \in Runs : ~Active(i)']_vars

\* C3: a line with the prefix whose payload is not JSON, or is not an
\* object, is passed over.  The texts are those of the same lines with the
\* bad ones taken out, and no error is reported: in the study of the
\* parser, where the network does not fail, the status is an error status
\* only once the user has stopped the run.
BadLinesSkipped ==
    /\ dom.status.cls = "error" => abortController.aborted
    /\ act[1].pc = "read" =>
          LET kept == Without(CompleteLines(Delivered(act[1])), BadLines)
              ref  == ProcessLines(StartPage(act[1]), kept)
          IN  /\ act[1].fullText = ref.fullText
              /\ act[1].reasoningText = ref.reasoningText

\* A bad line was read and a content line after it was accumulated.
ContentAfterBadLine ==
    /\ act[1].pc = "read"
    /\ act[1].fullText = TextA
    /\ LET lines == CompleteLines(Delivered(act[1])) IN
       \E j, k \in 1..Len(lines) :
           j < k /\ lines[j] \in BadLines /\ lines[k] = LineText.content

\* C4: a line that is blank once trimmed, the terminator line, and a line
\* without the prefix leave the texts, the boxes, the status and the run as
\* they are: the page is the one the other lines alone give.
IgnoredLinesInert ==
    act[1].pc = "read" =>
        PageOf(act[1]) =
            ProcessLines(StartPage(act[1]),
                         Without(CompleteLines(Delivered(act[1])), IgnoredLines))

\* A line of the ignored kinds was read and a content line after it was
\* accumulated.
ContentAfterIgnoredLine ==
    /\ act[1].pc = "read"
    /\ act[1].fullText = TextA
    /\ LET lines == CompleteLines(Delivered(act[1])) IN
       \E j, k \in 1..Len(lines) :
           j < k /\ lines[j] \in IgnoredLines /\ lines[k] = LineText.content

\* C5: at the end of the stream the text shown and stored is the
\* accumulated text without one leading begin marker and one trailing end
\* marker when it has both, and the accumulated text as it is otherwise.
MarkersStripped ==
    [][ReadDone(1) =>
          LET t == act[1].fullText
              shown == dom'.display
          IN  /\ IF StartsWith(t, BEGIN_MARKER) /\ EndsWith(t, END_MARKER)
                 THEN BEGIN_MARKER \o shown \o END_MARKER = t
                 ELSE shown = t
              /\ shown # <<>> =>
                    /\ sessionHistory' # <<>>
                    /\ Head(sessionHistory').text = shown]_vars

\* Two boxed texts in a row were stripped of the outer markers only.
InnerMarkersKept ==
    /\ act[1].pc = "ended"
    /\ dom.status.text = <<"Done">>
    /\ dom.display = TextA \o END_MARKER \o BEGIN_MARKER \o TextA
    /\ sessionHistory # <<>>
    /\ Head(sessionHistory).text = dom.display

\* C6: a click on the control button with no run active and no image staged
\* shows the alert and changes nothing else: no run starts.
NoImagesNoRun ==
    [][(toggleRecognize /\ ~isRecognizing /\ Len(currentImages) = 0)
          => /\ alertOpen'
             /\ UNCHANGED <<currentImages, isRecognizing, abortController,
                            sessionHistory, reasoningContent, reasoningToggle,
                            dom, act, timers, settings>>]_vars

\* After a run ended and its image was removed, a click was rejected.
RejectedAfterRun ==
    /\ alertOpen
    /\ currentImages = <<>>
    /\ act[1].pc = "ended"
    /\ act[2].pc = "none"

\* A box is expanded when it has the class expanded and not collapsed.
IsExpanded(box) == "expanded" \in box.cls /\ "collapsed" \notin box.cls
IsCollapsed(box) == "collapsed" \in box.cls /\ "expanded" \notin box.cls

\* C7: once a run was started, exactly one of the two boxes is expanded and
\* the other one is collapsed.
PanelsExclusive ==
    act[1].pc # "none" =>
        \/ IsExpanded(dom.reasoningBox) /\ IsCollapsed(dom.outputBox)
        \/ IsCollapsed(dom.reasoningBox) /\ IsExpanded(dom.outputBox)

\* A run with reasoning is done, its timer has fired and the user has
\* opened the reasoning box again.
ReasoningReopened ==
    /\ act[1].pc = "ended"
    /\ dom.status.text = <<"Done">>
    /\ reasoningContent # <<>>
    /\ timers = 0
    /\ IsExpanded(dom.reasoningBox)

\* C8: at most one run is active at a time.
AtMostOneRun == Cardinality({i \in Runs : Active(i)}) <= 1

\* The second run was stopped by a click and no third one was started.
SecondRunStopped ==
    /\ abortController = [run |-> 2, aborted |-> TRUE]
    /\ act[1].pc = "ended"
    /\ act[2].pc = "ended"
    /\ dom.status.text = <<"Stopped">>

\* C9: whenever a click can be handled, it cancels exactly when the status
\* shows Connecting or Processing; after a run has ended the status shows
\* neither.
ButtonMatchesStatus ==
    ~alertOpen =>
        (isRecognizing <=>
            dom.status.text \in {<<"Connecting...">>, <<"Processing...">>})

\* The message the status is to show for a non-2xx response.
ExpectedMessage(response) ==
    IF response.body = "error" THEN UpstreamError ELSE <<"HTTP ", response.status>>

\* C10: a run whose request is rejected by the network, whose response is
\* not 2xx, or whose read of a chunk fails ends with the status "Error: "
\* and the message; for a non-2xx response the message is the error field
\* of the body when it is there and not empty, and "HTTP <status>" when not.
FailureIsError ==
    [][\A i \in Runs :
          /\ FetchRejects(i) \/ ReadFails(i) \/ ErrorBodyRead(i) =>
                /\ act'[i].pc = "ended"
                /\ ~isRecognizing'
                /\ dom'.status.cls = "error"
                /\ StartsWith(dom'.status.text, <<"Error: ">>)
                /\ Len(dom'.status.text) > 1
          /\ ErrorBodyRead(i) =>
                dom'.status.text = <<"Error: ">> \o ExpectedMessage(act[i].response)]_vars

\* C11: every run that was started comes to its end, with isRecognizing
\* false again and the button showing Start, however it ends: at the end of
\* the stream with or without text, by the user's stop, or by a failure.
RunReturns ==
    (isRecognizing \/ \E i \in Runs : Active(i))
        ~> (/\ ~isRecognizing
            /\ \A i \in Runs : ~Active(i)
            /\ dom.btn = [text |-> "Start", stop |-> FALSE])

\* A run ended at the end of a stream without text, ready for the next click.
EndedWithoutText ==
    /\ act[1].pc = "ended"
    /\ ~isRecognizing
    /\ dom.btn = [text |-> "Start", stop |-> FALSE]
    /\ dom.status.text = <<"Processing...">>
    /\ currentImages # <<>>

\* The stream of run i ends in this step and leaves a final text.
EndsWithText(i) == ReadDone(i) /\ StripMarkers(act[i].fullText) # <<>>

\* C12: the step in which a stream ends with a final text that is not empty
\* sets the status Done and puts one entry with that text in front of
\* sessionHistory; no other step (a stop, a failure, a stream that ends
\* without final text, anything else) sets Done or changes sessionHistory.
DoneIffHistory ==
    [][/\ \A i \in Runs :
            EndsWithText(i) =>
               /\ dom'.status.text = <<"Done">>
               /\ sessionHistory' =
                     <<[text |-> StripMarkers(act[i].fullText)]>> \o sessionHistory
       /\ (\A i \in Runs : ~EndsWithText(i)) =>
               /\ sessionHistory' = sessionHistory
               /\ dom'.status.text = <<"Done">> => dom.status.text = <<"Done">>]_vars

\* Two runs are done, with different texts, the later one in front.
TwoEntries ==
    /\ Len(sessionHistory) = 2
    /\ sessionHistory[1] # sessionHistory[2]
    /\ act[2].pc = "ended"
    /\ dom.status.text = <<"Done">>

\* C13: right after a chunk whose lines brought a reasoning delta, the
\* reasoning box is expanded and the output box collapsed.  (Nothing in a
\* chunk touches the boxes after its last reasoning delta.)
ReasoningDeltaOpensBox ==
    [][\A i \in Runs :
          (/\ act[i].pc = "read"
           /\ act'[i].pc = "read"
           /\ act'[i].reasoningText # act[i].reasoningText)
          => /\ IsExpanded(dom'.reasoningBox)
             /\ IsCollapsed(dom'.outputBox)]_vars

\* C14: the step in which a stream ends sets one timer of the auto-switch
\* when the run's reasoning text is not empty, and none when it is empty;
\* the timer's callback leaves the reasoning box collapsed and the output
\* box expanded.  (A reasoning box that is not displayed is collapsed
\* already, unless the user opened it.)
AutoSwitchAfterReasoning ==
    [][/\ \A i \in Runs :
            ReadDone(i) =>
                timers' = IF act[i].reasoningText # <<>> THEN timers + 1 ELSE timers
       /\ (AutoSwitch /\ dom.reasoningBox.display # "none") =>
                /\ IsCollapsed(dom'.reasoningBox)
                /\ IsExpanded(dom'.outputBox)]_vars

\* The per-box status shows neither completed nor error.
Unmarked(status) == status \in {"box-status", "box-status spinning"}

\* C15: a click with no run active and an image staged starts a run, and
\* when its request goes out the texts of the run and of the page are
\* empty, the status of each box shows neither completed nor error, and the
\* boxes are as the reasoning switch says: reasoning expanded and output
\* collapsed when it is checked, reasoning hidden and collapsed and output
\* expanded when it is not.
RestartResets ==
    [][(toggleRecognize /\ ~isRecognizing /\ currentImages # <<>>) =>
          /\ isRecognizing'
          /\ \E i \in Runs :
                /\ act[i].pc = "none"
                /\ act'[i].pc = "fetch"
                /\ act'[i].fullText = <<>>
                /\ act'[i].reasoningText = <<>>
          /\ reasoningContent' = <<>>
          /\ dom'.display = <<>>
          /\ dom'.reasoningDisplay = <<>>
          /\ Unmarked(dom'.reasoningStatus)
          /\ Unmarked(dom'.outputStatus)
          /\ IF reasoningToggle.checked
             THEN /\ IsExpanded(dom'.reasoningBox)
                  /\ dom'.reasoningBox.display = "flex"
                  /\ IsCollapsed(dom'.outputBox)
             ELSE /\ IsCollapsed(dom'.reasoningBox)
                  /\ dom'.reasoningBox.display = "none"
                  /\ IsExpanded(dom'.outputBox)]_vars

\* A second run was started, with the reasoning switch checked, after a run
\* that was done.
RestartedAfterDone ==
    /\ act[1].pc = "ended"
    /\ act[2].pc = "fetch"
    /\ sessionHistory # <<>>
    /\ reasoningToggle.checked
    /\ IsExpanded(dom.reasoningBox)

\* C16: with the configuration loaded, selecting a model leaves the switch
\* checked and disabled when the model's supports_reasoning is 'default',
\* unchecked and disabled when it is 'false', and enabled with its checked
\* value as it was when it is 'true'; and the enable_reasoning of a run is
\* the checked value of the switch when the run starts: true on a
\* 'default' model and false on a 'false' model.
TriState ==
    [][/\ \A id \in ModelIds :
            (SelectModel(id) /\ appConfig = "loaded") =>
                CASE Models[id] = "default" ->
                        reasoningToggle' = [checked |-> TRUE, disabled |-> TRUE]
                  [] Models[id] = "false" ->
                        reasoningToggle' = [checked |-> FALSE, disabled |-> TRUE]
                  [] Models[id] = "true" ->
                        /\ ~reasoningToggle'.disabled
                        /\ reasoningToggle'.checked = reasoningToggle.checked
                  [] OTHER -> TRUE
       /\ \A i \in Runs :
            (act[i].pc = "none" /\ act'[i].pc = "fetch") =>
                /\ act'[i].reasoningEnabled = reasoningToggle.checked
                /\ appConfig = "loaded" =>
                      /\ Models[modelSelect] = "default" => act'[i].reasoningEnabled
                      /\ Models[modelSelect] = "false" => ~act'[i].reasoningEnabled]_vars

\* With the switch unchecked, a 'default' model was selected and a run was
\* started on it, with reasoning.
RunOnDefaultModel ==
    /\ appConfig = "loaded"
    /\ Models[modelSelect] = "default"
    /\ reasoningToggle = [checked |-> TRUE, disabled |-> TRUE]
    /\ act[1].pc = "ended"
    /\ act[2].pc = "fetch"
    /\ act[2].reasoningEnabled

\* C17: the click that stops a run adds nothing to the page: the texts
\* shown stay as they are, cut where they were, and sessionHistory gets no
\* entry; and from then on, until a click starts another run, the run is at
\* its end and no step appends to the texts or to sessionHistory.
StopEndsConsumption ==
    [][/\ (~abortController.aborted /\ abortController'.aborted) =>
            /\ act'[abortController.run].pc = "ended"
            /\ dom'.display = dom.display
            /\ dom'.reasoningDisplay = dom.reasoningDisplay
            /\ reasoningContent' = reasoningContent
            /\ sessionHistory' = sessionHistory
       /\ (abortController.aborted /\ abortController' = abortController) =>
            /\ act'[abortController.run].pc = "ended"
            /\ dom'.display = dom.display
            /\ dom'.reasoningDisplay = dom.reasoningDisplay
            /\ reasoningContent' = reasoningContent
            /\ sessionHistory' = sessionHistory]_vars

\* A run was stopped after output and reasoning text had arrived: the
\* texts are still shown and there is no entry for them.
StoppedWithPartialText ==
    /\ abortController = [run |-> 1, aborted |-> TRUE]
    /\ dom.status.text = <<"Stopped">>
    /\ dom.display = TextA
    /\ dom.reasoningDisplay = TextR
    /\ sessionHistory = <<>>
    /\ timers = 0

\* C18: on any page, with the two boxes in any of the four combinations of
\* expanded and collapsed, toggleBox of either box leaves exactly one box
\* expanded and the other collapsed; when exactly one was expanded before,
\* it is the other one afterwards.
ToggleRestoresExclusivity ==
    \A rc \in BoxClasses, oc \in BoxClasses, boxType \in {"reasoning", "output"} :
        LET before == [dom EXCEPT !.reasoningBox.cls = rc, !.outputBox.cls = oc]
            after  == toggleBox(before, boxType)
        IN  /\ \/ IsExpanded(after.reasoningBox) /\ IsCollapsed(after.outputBox)
               \/ IsCollapsed(after.reasoningBox) /\ IsExpanded(after.outputBox)
            /\ rc # oc =>
                  /\ after.reasoningBox.cls = oc
                  /\ after.outputBox.cls = rc
            /\ after = [before EXCEPT !.reasoningBox.cls = after.reasoningBox.cls,
                                      !.outputBox.cls = after.outputBox.cls]

\* During a run with reasoning, before any delta, the user has swapped the
\* boxes: the output box is the expanded one.
SwappedDuringRun ==
    /\ act[1].pc = "fetch"
    /\ act[1].reasoningEnabled
    /\ IsCollapsed(dom.reasoningBox)
    /\ IsExpanded(dom.outputBox)

\* The lines before the first terminator line.
BeforeDone(lines) ==
    LET at == {k \in 1..Len(lines) : Trim(lines[k]) = DONE_LINE} IN
    IF at = {} THEN lines
    ELSE SubSeq(lines, 1, (CHOOSE k \in at : \A j \in at : k <= j) - 1)

\* C19: once the line "data: [DONE]" was read, no later line of the stream
\* adds to the output or the reasoning text: the texts are those of the
\* lines before it.
DoneEndsSequence ==
    act[1].pc = "read" =>
        LET ref == ProcessLines(StartPage(act[1]),
                                BeforeDone(CompleteLines(Delivered(act[1]))))
        IN  /\ act[1].fullText = ref.fullText
            /\ act[1].reasoningText = ref.reasoningText

\* What each payload of the table is to add to the output text and to the
\* reasoning text: a payload with the type of a reasoning delta its delta
\* alone, a payload of the choices shape the content and the reasoning of
\* choices[0].delta, any other payload nothing.
Contribution ==
    [content      |-> [output |-> TextA,        reasoning |-> <<>>],
     begin        |-> [output |-> BEGIN_MARKER, reasoning |-> <<>>],
     boxed        |-> [output |-> TextBoxed,    reasoning |-> <<>>],
     reasoning    |-> [output |-> <<>>,         reasoning |-> TextR],
     blank        |-> [output |-> <<>>,         reasoning |-> TextBlank],
     both         |-> [output |-> TextAccent,   reasoning |-> TextR],
     typed        |-> [output |-> <<>>,         reasoning |-> TextR],
     typedChoices |-> [output |-> <<>>,         reasoning |-> TextR],
     usage        |-> [output |-> <<>>,         reasoning |-> <<>>],
     other        |-> [output |-> <<>>,         reasoning |-> <<>>],
     null         |-> [output |-> <<>>,         reasoning |-> <<>>]]

\* C20: on any page of a run, a payload line with the type
\* response.reasoning.delta adds its delta to the reasoning text and
\* nothing to the output text, whatever choices it carries; a payload line
\* without the type adds the reasoning and the content of choices[0].delta;
\* a payload of neither shape leaves the page as it is.
DispatchOrder ==
    \A k \in DOMAIN JsonTable :
        LET m == PageOf(act[1])
            r == ProcessLine(m, PayloadLine(k))
        IN  /\ r.fullText = m.fullText \o Contribution[k].output
            /\ r.reasoningText = m.reasoningText \o Contribution[k].reasoning
            /\ Contribution[k].output = <<>> => r.dom.display = m.dom.display
            /\ Contribution[k].output # <<>> => r.dom.display = r.fullText
            /\ Contribution[k].reasoning # <<>> => r.reasoningContent = r.reasoningText
            /\ (Contribution[k].output = <<>> /\ Contribution[k].reasoning = <<>>)
                  => r = m

\* A line with the type and with choices was read after a content line: its
\* delta went to the reasoning text and its content nowhere.
TypedLineRead ==
    /\ act[1].pc = "read"
    /\ CompleteLines(Delivered(act[1])) = <<LineText.content, LineText.typedChoices>>
    /\ act[1].fullText = TextA
    /\ act[1].reasoningText = TextR

\* The content delta of a line: that of its payload when the line, trimmed,
\* is the prefix and a payload of the table, and none otherwise.
ContentOf(line) ==
    LET ks == {k \in DOMAIN JsonTable : Trim(line) = PayloadLine(k)} IN
    IF ks = {} THEN <<>> ELSE Contribution[CHOOSE k \in ks : TRUE].output

RECURSIVE ContentsOf(_)
ContentsOf(lines) ==
    IF lines = <<>> THEN <<>>
    ELSE ContentOf(Head(lines)) \o ContentsOf(Tail(lines))

\* C21: while a run reads, its output text is the content deltas of the
\* complete lines read so far, one after the other in the order of the
\* wire; each chunk leaves the text it found as a prefix of the new one.
OrderPreserved ==
    [][act'[1].pc = "read" =>
          /\ act'[1].fullText = ContentsOf(CompleteLines(Delivered(act'[1])))
          /\ act[1].pc = "read" => StartsWith(act'[1].fullText, act[1].fullText)]_vars

\* Two different content deltas were read, and the text has them in the
\* order of their lines.
TwoDeltasInOrder ==
    /\ act[1].pc = "read"
    /\ CompleteLines(Delivered(act[1])) = <<LineText.begin, LineText.content>>
    /\ act[1].fullText = BEGIN_MARKER \o TextA

\* The lines that carry a content delta and nothing else.
ContentOnlyLines == {LineText.content, LineText.begin, LineText.boxed}

\* The lines that the bytes between two positions of a run completed.
NewLines(a, b) ==
    LET before == CompleteLines(Delivered(a))
        after  == CompleteLines(Delivered(b))
    IN  SubSeq(after, Len(before) + 1, Len(after))

\* C22: a chunk whose lines all carry a content delta and nothing else
\* changes only the output text and the display of it: the status stays
\* Processing, and the reasoning text, the boxes, the status indicators
\* and the history are as they were.
ContentOnlyFrame ==
    [][(/\ act[1].pc = "read" /\ act'[1].pc = "read"
        /\ act'[1].pos > act[1].pos
        /\ NewLines(act[1], act'[1]) # <<>>
        /\ \A n \in DOMAIN NewLines(act[1], act'[1]) :
               NewLines(act[1], act'[1])[n] \in ContentOnlyLines)
       => /\ act'[1].fullText =
                act[1].fullText \o ContentsOf(NewLines(act[1], act'[1]))
          /\ act'[1].fullText # act[1].fullText
          /\ act'[1] = [act[1] EXCEPT !.fullText = act'[1].fullText,
                                      !.io = act'[1].io, !.pos = act'[1].pos]
          /\ dom' = [dom EXCEPT !.display = act'[1].fullText]
          /\ dom'.status.text = <<"Processing...">>
          /\ UNCHANGED <<reasoningContent, sessionHistory, isRecognizing,
                         abortController, timers>>]_vars

\* Content was read after a reasoning delta had collapsed the output box,
\* and the box is collapsed still.
ContentUnderCollapsedOutput ==
    /\ act[1].pc = "read"
    /\ CompleteLines(Delivered(act[1])) = <<LineText.typedChoices, LineText.content>>
    /\ act[1].fullText = TextA
    /\ IsCollapsed(dom.outputBox)
    /\ IsExpanded(dom.reasoningBox)

\* What main.js is to add to the reasoning text for a line: the reasoning
\* of choices[0].delta of its payload, when the payload has no type of its
\* own.
ReasoningOf(line) ==
    LET ks == {k \in DOMAIN JsonTable \ {"typed", "typedChoices"} :
                  Trim(line) = PayloadLine(k)}
    IN  IF ks = {} THEN <<>> ELSE Contribution[CHOOSE k \in ks : TRUE].reasoning

RECURSIVE ReasoningsOf(_)
ReasoningsOf(lines) ==
    IF lines = <<>> THEN <<>>
    ELSE ReasoningOf(Head(lines)) \o ReasoningsOf(Tail(lines))

\* C23: while the run of main.js reads, its reasoning text is the
\* reasoning deltas of choices[0].delta of the complete lines read so far,
\* those of payloads without content included.
BasicReasoningAppended ==
    basic.pc = "read" =>
        basic.reasoningText = ReasoningsOf(CompleteLines(Delivered(basic)))

\* The text the other page makes of the same bytes given in two chunks, the
\* first of c bytes.
PanelText(bytes, c) ==
    LET start == StartPage([reasoningEnabled |-> reasoningToggle.checked])
        one == ProcessChunk(start, NoIo, SubSeq(bytes, 1, c))
        two == IF c = Len(bytes) THEN one
               ELSE ProcessChunk(one.m, one.io, SubSeq(bytes, c + 1, Len(bytes)))
    IN  two.m.fullText

\* No line of the stream has a payload with a type of its own.
Untyped(wire) ==
    \A n \in DOMAIN Split(Decoded(wire).text) :
        Trim(Split(Decoded(wire).text)[n])
            \notin {PayloadLine("typed"), PayloadLine("typedChoices")}

\* C25: on a stream without typed payloads, in every chunking, the output
\* text of main.js is the one the other page makes of the same bytes, and
\* at the end of the stream so are the final text and the history.
VariantsAgree ==
    Untyped(basic.wire) =>
        /\ basic.pc = "read" =>
              \A c \in 0..basic.pos :
                  basic.fullText = PanelText(Delivered(basic), c)
        /\ basic.pc = "done" =>
              \A c \in 0..Len(basic.wire) :
                  LET final == StripMarkers(PanelText(basic.wire, c)) IN
                  /\ basic.fullText = final
                  /\ basic.dom.display = final
                  /\ sessionHistory = IF final # <<>>
                                      THEN Unshift(<<>>, [text |-> final])
                                      ELSE <<>>

\* main.js ended a stream whose lines were a payload without choices and
\* the boxed text: the text, without its markers, is in the history.
BasicDoneWithHistory ==
    /\ basic.pc = "done"
    /\ basic.wire = WireOf(<<"other", "boxed">>)
    /\ sessionHistory = <<[text |-> TextA]>>

\* C24: when the read reports done, what is left in the line buffer is not
\* processed: the text shown and the entry put in the history are made of
\* the complete lines of the stream alone, and the reasoning text of the
\* page is as the last chunk left it.
TailNeverProcessed ==
    [][(/\ act[1].pc = "read" /\ act'[1].pc = "ended"
        /\ ~abortController'.aborted)
       => LET final == StripMarkers(ContentsOf(CompleteLines(act[1].wire))) IN
          /\ act[1].fullText = ContentsOf(CompleteLines(act[1].wire))
          /\ dom'.display = final
          /\ sessionHistory' = IF final # <<>>
                               THEN <<[text |-> final]>> \o sessionHistory
                               ELSE sessionHistory
          /\ reasoningContent' = reasoningContent
          /\ dom'.reasoningDisplay = dom.reasoningDisplay]_vars

\* The whole stream was read: one content line was processed and a second,
\* well formed and without its newline, is in the buffer.
TailInBuffer ==
    /\ act[1].pc = "read"
    /\ act[1].pos = Len(act[1].wire)
    /\ act[1].wire = WireOf(<<"content">>) \o Encode(PayloadLine("content"))
    /\ act[1].io.buffer = PayloadLine("content")
    /\ act[1].fullText = TextA

\* C26: the callback of an auto-switch timer that runs while a run is
\* active, a timer an earlier run set, leaves the two boxes as the active
\* run has them.
EarlierTimerInert ==
    [][(timers' < timers /\ isRecognizing)
       => /\ dom'.reasoningBox = dom.reasoningBox
          /\ dom'.outputBox = dom.outputBox]_vars

\* C27: with no run active neither status indicator spins, and while a run
\* is active at most one of the two spins.
NoSpinnerSurvives ==
    /\ ~isRecognizing => /\ dom.reasoningStatus # "box-status spinning"
                          /\ dom.outputStatus # "box-status spinning"
    /\ isRecognizing => \/ dom.reasoningStatus # "box-status spinning"
                         \/ dom.outputStatus # "box-status spinning"

\* C28: no step of the page takes an entry out of the history.
HistoryKept ==
    [][\A k \in DOMAIN sessionHistory :
          \E j \in DOMAIN sessionHistory' : sessionHistory'[j] = sessionHistory[k]]_vars

====
